---- MODULE Spec2Model ----
(***************************************************************************)
(* Webhook ingestion pipeline of the voice-agent backend:                  *)
(*   retell_webhook   (api/routes/webhooks.py)  receiver                   *)
(*   process_webhook  (api/routes/webhooks.py)  background processor       *)
(*   extract_structured_data (services/post_processing.py)                 *)
(*   create_web_call  (api/routes/calls.py)     provisioning of Calls      *)
(* The store is the two tables of the initial schema migration.            *)
(*                                                                         *)
(* JSON is modelled with flat records: a key that is missing from a        *)
(* mapping holds Absent, a JSON null holds None, every scalar is a string. *)
(*                                                                         *)
(* Each webhook request has its own session (get_session); the tasks of    *)
(* different requests interleave at their store accesses: the Call lookup, *)
(* the CallResult select, the commit and the rollback. Reads see what is   *)
(* committed at the time of the read. The debug dump of the payload to a   *)
(* file (webhooks.py 96-108) touches no table and its errors are caught,   *)
(* so it has no step here. Timestamps are left out.                        *)
(***************************************************************************)
EXTENDS Integers, FiniteSets, Sequences, TLC

\* ------------------------------------------------------------------ bounds
NumRequests == 2        \* webhook requests handled, numbered in order of arrival

Requests == 1..NumRequests

\* ------------------------------------------------------- values and keys
Absent == "<absent>"    \* key not in the mapping
None == "<None>"        \* Python None / JSON null

\* call ids the vendor can assign, and one it never assigns
CallIds == {"call_1"}
UnknownCallId == "call_unknown"

\* settings.retell_api_key and some other key
retell_api_key == "mock_key"
OtherKey == "other_key"

Events == {"call_started", "call_ended", "call_analyzed"}

\* call_analysis.py
NORMAL_FLOW_FIELD_NAMES ==
    {"driver_status", "current_location", "eta", "delay_reason",
     "unloading_status", "pod_reminder_acknowledged"}
EMERGENCY_FLOW_FIELD_NAMES ==
    {"emergency_type", "safety_status", "injury_status", "emergency_location",
     "load_secure", "escalation_status"}
BuiltinFields == {"call_summary", "call_successful", "user_sentiment", "in_voicemail"}
UniversalFields == BuiltinFields \cup {"call_outcome"}
CustomKeys == {"call_outcome"} \cup NORMAL_FLOW_FIELD_NAMES \cup EMERGENCY_FLOW_FIELD_NAMES

\* a lookup that hands back the missing-key marker instead of the default
Get_no_default(d, k, default) == d[k]

\* dict.get(key, default) on a flat mapping; a JSON null is returned as None
Get(d, k, default) == IF d[k] = Absent THEN default ELSE d[k]

\* ------------------------------------------------------------ payloads
\* custom_analysis_data samples (call_analysis.py field names)
NoCustom == [k \in CustomKeys |-> Absent]
ArrivalCustom ==
    [NoCustom EXCEPT !["call_outcome"] = "Arrival Confirmation",
                     !["driver_status"] = "Arrived",
                     !["unloading_status"] = "In Door 12"]
EmergencyCustom ==
    [NoCustom EXCEPT !["call_outcome"] = "Emergency",
                     !["emergency_type"] = "Breakdown",
                     !["driver_status"] = "Driving"]
CustomSamples == {ArrivalCustom, EmergencyCustom}

NoBuiltin == [k \in BuiltinFields |-> Absent]
SomeBuiltin == [NoBuiltin EXCEPT !["call_summary"] = "summary", !["call_successful"] = "true"]

\* the "call" mapping of an envelope; *_kind is "dict" for a mapping, None for a
\* JSON null and Absent for a missing key
NoCall ==
    [call_id |-> Absent, call_status |-> Absent, transcript |-> Absent,
     call_analysis_kind |-> Absent, call_analysis |-> NoBuiltin,
     custom_analysis_data_kind |-> Absent, custom_analysis_data |-> NoCustom]

IdChoices == CallIds \cup {UnknownCallId, Absent}

StatusCalls ==
    {[NoCall EXCEPT !.call_id = i, !.call_status = s] :
        i \in CallIds, s \in {"ended", "error", Absent}}
    \cup {[NoCall EXCEPT !.call_id = i] : i \in IdChoices}
AnalyzedCalls ==
    {[NoCall EXCEPT !.call_id = i, !.transcript = tr,
                    !.call_analysis_kind = "dict", !.call_analysis = SomeBuiltin,
                    !.custom_analysis_data_kind = "dict", !.custom_analysis_data = c] :
        i \in CallIds, tr \in {"t1", "t2"}, c \in CustomSamples}
    \cup {[NoCall EXCEPT !.call_id = i, !.transcript = "t1",
                    !.call_analysis_kind = "dict", !.call_analysis = SomeBuiltin,
                    !.custom_analysis_data_kind = "dict",
                    !.custom_analysis_data = ArrivalCustom] : i \in IdChoices}
    \cup {[NoCall EXCEPT !.call_id = i] : i \in CallIds}
    \cup {[NoCall EXCEPT !.call_id = i, !.call_analysis_kind = None] : i \in CallIds}

\* request bodies: json is "object", "array" (JSON but no object) or "invalid"
\* (not parseable); call_kind is "dict", "str" (call is no mapping) or Absent
NoBody == [json |-> "invalid", event |-> Absent, call_kind |-> Absent, call |-> NoCall]
Envelope(e, c) == [json |-> "object", event |-> e, call_kind |-> "dict", call |-> c]
WellFormedBodies ==
    {Envelope("call_started", c) : c \in {x \in StatusCalls : x.call_status = Absent}}
    \cup {Envelope("call_ended", c) : c \in StatusCalls}
    \cup {Envelope("call_analyzed", c) : c \in AnalyzedCalls}
SomeCall == [NoCall EXCEPT !.call_id = "call_1"]
MalformedBodies ==
    {[Envelope("call_unknown_event", SomeCall) EXCEPT !.call_kind = k] : k \in {"dict"}}
    \cup {Envelope(Absent, SomeCall)}
    \cup {[Envelope(e, NoCall) EXCEPT !.call_kind = k] :
            e \in {"call_started", "call_analyzed"}, k \in {Absent, "str", None}}
    \cup {[NoBody EXCEPT !.json = "array"]}
Bodies == WellFormedBodies \cup MalformedBodies \cup {NoBody}

\* ------------------------------------------------------ authenticity check
\* json.dumps(post_data, separators=(",", ":"), ensure_ascii=False): the
\* canonical text of the parsed body
Serialize(body) == <<"json", body>>
\* the vendor's signature of a text under a key (a keyed digest)
Sign(text, key) == <<"sig", key, text>>
\* X-Retell-Signature header: {} when the header is missing, else {value}
Signatures(body) ==
    {{}, {Sign(Serialize(body), retell_api_key)}, {Sign(Serialize(body), OtherKey)},
     {Sign(Serialize(NoBody), retell_api_key)}}
\* faulty variant: any header that is present is accepted
verify_any_header(text, key, header) == header # {}

\* faulty variant: only the key of the signature is checked, not the text
verify_key_only(text, key, header) == \E sg \in header : sg[2] = key

\* retell.lib.webhook_auth.verify(text, api_key, str(header))
verify(text, key, header) == header = {Sign(text, key)}

valid_signature(r) == verify(Serialize(r.body), retell_api_key, r.signature)

\* faulty variant: event typed str instead of Literal[...]
WebhookPayload_any_event(body) ==
    /\ body.json = "object"
    /\ body.event # Absent
    /\ body.call_kind = "dict"

\* WebhookPayload.model_validate(post_data) succeeds
WebhookPayload(body) ==
    /\ body.json = "object"
    /\ body.event \in Events
    /\ body.call_kind = "dict"

NoRequest == [body |-> NoBody, signature |-> {}]

\* the status the receiver answers with (500: request.json() raised)
ResponseOf(r) ==
    IF r.body.json = "invalid" THEN 500
    ELSE IF ~valid_signature(r) THEN 401
    ELSE IF ~WebhookPayload(r.body) THEN 400
    ELSE 204

\* ------------------------------------------------- structured data extractor
\* extract_structured_data raises (AttributeError on None.get)
extract_raises(call_data) ==
    \/ call_data.call_analysis_kind = None
    \/ call_data.call_analysis_kind = "dict" /\ call_data.custom_analysis_data_kind = None

\* faulty variant: the fields of both flows are always extracted
extract_structured_data_both_flows(call_data) ==
    LET call_analysis == IF call_data.call_analysis_kind = "dict"
                         THEN call_data.call_analysis ELSE NoBuiltin
        custom_data == IF call_data.call_analysis_kind = "dict"
                          /\ call_data.custom_analysis_data_kind = "dict"
                       THEN call_data.custom_analysis_data ELSE NoCustom
    IN  [k \in UniversalFields \cup NORMAL_FLOW_FIELD_NAMES \cup EMERGENCY_FLOW_FIELD_NAMES |->
            IF k \in BuiltinFields THEN Get(call_analysis, k, None)
            ELSE Get(custom_data, k, None)]

\* faulty variant: the outcome is compared without regard to case
extract_structured_data_any_case(call_data) ==
    LET call_analysis == IF call_data.call_analysis_kind = "dict"
                         THEN call_data.call_analysis ELSE NoBuiltin
        custom_data == IF call_data.call_analysis_kind = "dict"
                          /\ call_data.custom_analysis_data_kind = "dict"
                       THEN call_data.custom_analysis_data ELSE NoCustom
        call_outcome == Get(custom_data, "call_outcome", None)
        flow == IF call_outcome \in {"Emergency", "emergency"}
                THEN EMERGENCY_FLOW_FIELD_NAMES ELSE NORMAL_FLOW_FIELD_NAMES
    IN  [k \in UniversalFields \cup flow |->
            IF k \in BuiltinFields THEN Get(call_analysis, k, None)
            ELSE IF k = "call_outcome" THEN call_outcome
            ELSE Get(custom_data, k, None)]

\* the mapping extract_structured_data returns
extract_structured_data(call_data) ==
    LET call_analysis == IF call_data.call_analysis_kind = "dict"
                         THEN call_data.call_analysis ELSE NoBuiltin
        custom_data == IF call_data.call_analysis_kind = "dict"
                          /\ call_data.custom_analysis_data_kind = "dict"
                       THEN call_data.custom_analysis_data ELSE NoCustom
        call_outcome == Get(custom_data, "call_outcome", None)
        flow == IF call_outcome = "Emergency"
                THEN EMERGENCY_FLOW_FIELD_NAMES ELSE NORMAL_FLOW_FIELD_NAMES
    IN  [k \in UniversalFields \cup flow |->
            IF k \in BuiltinFields THEN Get(call_analysis, k, None)
            ELSE IF k = "call_outcome" THEN call_outcome
            ELSE Get(custom_data, k, None)]

\* ---------------------------------------------------------------- state
VARIABLES
    calls,            \* table test_calls: call id -> row
    results,          \* table call_results: set of rows
    next_result_id,   \* autoincrement of call_results.id
    web_call,         \* create_web_call per vendor call id: position and request
    pc,               \* per webhook request: position of receiver and task
    req,              \* per webhook request: the request being processed
    response,         \* per webhook request: HTTP status sent (0: none yet)
    arrival,          \* per webhook request: what kind of request arrived
    db_call,          \* per task: the Call loaded into the session ({} or {row})
    existing_result,  \* per task: the CallResult loaded into the session
    mutated           \* per webhook request: it has changed a table

vars == <<calls, results, next_result_id, web_call, pc, req, response, arrival,
          db_call, existing_result, mutated>>

Statuses == {"pending", "in-progress", "completed", "failed"}

\* CallCreate request samples
CallCreates ==
    {[agent_id |-> "agent_1", driver_name |-> "Ann", phone_number |-> "+100",
      load_number |-> "L1"]}
NoCallCreate == [agent_id |-> Absent, driver_name |-> Absent, phone_number |-> Absent,
                 load_number |-> Absent]

Init ==
    /\ calls = <<>>
    /\ results = {}
    /\ next_result_id = 1
    /\ web_call = [i \in CallIds |-> [pc |-> "idle", request |-> NoCallCreate]]
    /\ pc = [t \in Requests |-> "idle"]
    /\ req = [t \in Requests |-> NoRequest]
    /\ response = [t \in Requests |-> 0]
    /\ arrival = [t \in Requests |-> "none"]
    /\ db_call = [t \in Requests |-> {}]
    /\ existing_result = [t \in Requests |-> {}]
    /\ mutated = [t \in Requests |-> FALSE]

\* what arrived, told from how the request was built: the event name for a signed,
\* well-formed envelope
ArrivalOf(b, sg) ==
    IF b.json = "invalid" THEN "unparsed"
    ELSE IF sg = {} THEN "unsigned"
    ELSE IF sg # {Sign(Serialize(b), retell_api_key)} THEN "badly_signed"
    ELSE IF b \in MalformedBodies THEN "malformed"
    ELSE b.event

\* ------------------------------------------------------------ the store
\* faulty variant: the Call is stored as already in progress
NewCall_in_progress(id, request) ==
    [id |-> id, agent_id |-> request.agent_id, driver_name |-> request.driver_name,
     phone_number |-> request.phone_number, load_number |-> request.load_number,
     status |-> "in-progress"]

\* Call(id=..., agent_id=..., ..., status="pending") of create_web_call
NewCall(id, request) ==
    [id |-> id, agent_id |-> request.agent_id, driver_name |-> request.driver_name,
     phone_number |-> request.phone_number, load_number |-> request.load_number,
     status |-> "pending"]

\* faulty variant: the status is written only while the row is as it was loaded
\* (the first of two concurrent writes wins)
CommitStatus_if_unchanged(table, loaded, status) ==
    IF table[loaded.id].status = loaded.status
    THEN [table EXCEPT ![loaded.id].status = status] ELSE table

\* faulty variant: a Call that failed is removed instead of marked
CommitStatus_delete_failed(table, loaded, status) ==
    IF status = "failed"
    THEN [i \in DOMAIN table \ {loaded.id} |-> table[i]]
    ELSE IF status # loaded.status THEN [table EXCEPT ![loaded.id].status = status]
    ELSE table

\* session.commit() of a Call whose status was assigned: the unit of work writes
\* the column only when the value differs from the one loaded
CommitStatus(table, loaded, status) ==
    IF status # loaded.status THEN [table EXCEPT ![loaded.id].status = status] ELSE table

\* faulty variant: the update stores a second row instead
CommitResultUpdate_as_insert(rows, loaded, transcript, structured_data) ==
    rows \cup {[id |-> loaded.id + 1, call_id |-> loaded.call_id,
                transcript |-> transcript, structured_data |-> structured_data]}

\* faulty variant: the new mapping is merged into the stored one (dict.update)
CommitResultUpdate_merge(rows, loaded, transcript, structured_data) ==
    {IF r.id # loaded.id THEN r
     ELSE [r EXCEPT !.transcript = transcript,
                    !.structured_data = structured_data @@ @] : r \in rows}

\* session.commit() of a loaded CallResult whose transcript and structured_data
\* were assigned: only the columns that differ from the loaded ones are written
CommitResultUpdate(rows, loaded, transcript, structured_data) ==
    {IF r.id # loaded.id THEN r
     ELSE [r EXCEPT
            !.transcript = IF transcript # loaded.transcript THEN transcript ELSE @,
            !.structured_data = IF structured_data # loaded.structured_data
                                THEN structured_data ELSE @] : r \in rows}

\* faulty variant: the new CallResult is added to the session but never written
CommitResultInsert_lost(rows, id, call_id, transcript, structured_data) == rows

\* session.commit() of a new CallResult
CommitResultInsert(rows, id, call_id, transcript, structured_data) ==
    rows \cup {[id |-> id, call_id |-> call_id, transcript |-> transcript,
                structured_data |-> structured_data]}

\* faulty variant: what the flush wrote stays (no rollback on the connection)
CommitFailed_keeps_flush(table, written) == written

\* a commit that raises: nothing of what the flush wrote persists
CommitFailed(table, written) == table

\* faulty variant: an id that matches nothing falls back to the stored Calls
session_get_fallback(table, id) ==
    IF id \in DOMAIN table THEN {table[id]} ELSE {table[i] : i \in DOMAIN table}

\* session.get(Call, id): {} when there is no such row, else {row}
session_get(table, id) == IF id \in DOMAIN table THEN {table[id]} ELSE {}

\* session.exec(select(CallResult).where(CallResult.call_id == id)).first():
\* the candidates (no ORDER BY: any matching row can come first)
SelectFirst(rows, call_id) ==
    LET matching == {r \in rows : r.call_id = call_id}
    IN  IF matching = {} THEN {{}} ELSE {{r} : r \in matching}

\* faulty variants of the two assignments
StartedStatus_pending == "pending"
EndedStatus_default_ok(call_status) ==
    IF call_status \in {"ended", "unknown"} THEN "completed" ELSE "failed"

\* faulty variant: a call that did not end well keeps the vendor's call_status
EndedStatus_vendor_value(call_status) ==
    IF call_status = "ended" THEN "completed" ELSE call_status

\* db_call.status assigned by a status event
StartedStatus == "in-progress"
EndedStatus(call_status) == IF call_status = "ended" THEN "completed" ELSE "failed"

ResultsOf(id) == {r \in results : r.call_id = id}

Touched(t) == mutated[t] \/ calls' # calls \/ results' # results

\* ------------------------------------------------------- create_web_call
\* retell_service.create_web_call(...) returns the vendor's call with call_id id
create_web_call_vendor_of(id, request) ==
    /\ web_call[id].pc = "idle"
    /\ web_call' = [web_call EXCEPT ![id] = [pc |-> "created", request |-> request]]
    /\ UNCHANGED <<calls, results, next_result_id, pc, req, response, arrival,
                   db_call, existing_result, mutated>>

create_web_call_vendor(id) ==
    \E request \in CallCreates : create_web_call_vendor_of(id, request)

\* the vendor call raises: 500, nothing stored
create_web_call_vendor_fails(id) ==
    /\ web_call[id].pc = "idle"
    /\ web_call' = [web_call EXCEPT ![id].pc = "failed"]
    /\ UNCHANGED <<calls, results, next_result_id, pc, req, response, arrival,
                   db_call, existing_result, mutated>>

\* session.add(db_call); session.commit(); return retell_call
create_web_call_commit(id) ==
    /\ web_call[id].pc = "created"
    /\ calls' = (id :> NewCall(id, web_call[id].request)) @@ calls
    /\ web_call' = [web_call EXCEPT ![id].pc = "stored"]
    /\ UNCHANGED <<results, next_result_id, pc, req, response, arrival,
                   db_call, existing_result, mutated>>

\* the commit raises: 500, nothing stored
create_web_call_commit_fails(id) ==
    /\ web_call[id].pc = "created"
    /\ calls' = CommitFailed(calls, (id :> NewCall(id, web_call[id].request)) @@ calls)
    /\ web_call' = [web_call EXCEPT ![id].pc = "failed"]
    /\ UNCHANGED <<results, next_result_id, pc, req, response, arrival,
                   db_call, existing_result, mutated>>

\* ---------------------------------------------------------- retell_webhook
\* faulty variant: a call_started event is applied before the response is sent
retell_webhook_inline(t) ==
    /\ pc[t] = "idle"
    /\ \A u \in Requests : u < t => pc[u] # "idle"
    /\ \E b \in Bodies : \E sg \in Signatures(b) :
         LET r == [body |-> b, signature |-> sg]
             status == ResponseOf(r)
         IN  /\ response' = [response EXCEPT ![t] = status]
             /\ arrival' = [arrival EXCEPT ![t] = ArrivalOf(b, sg)]
             /\ IF status = 204 /\ b.event = "call_started" /\ b.call.call_id \in DOMAIN calls
                THEN /\ calls' = [calls EXCEPT ![b.call.call_id].status = StartedStatus]
                     /\ pc' = [pc EXCEPT ![t] = "applied"]
                     /\ mutated' = [mutated EXCEPT ![t] = calls' # calls]
                     /\ req' = req
                ELSE /\ pc' = [pc EXCEPT ![t] = IF status = 204 THEN "scheduled"
                                                ELSE "rejected"]
                     /\ req' = [req EXCEPT ![t] = IF status = 204 THEN r ELSE @]
                     /\ UNCHANGED <<calls, mutated>>
    /\ UNCHANGED <<results, next_result_id, web_call, db_call, existing_result>>

\* the receiver, from the arrival of the request to its response
retell_webhook(t) ==
    /\ pc[t] = "idle"
    /\ \A u \in Requests : u < t => pc[u] # "idle"
    /\ \E b \in Bodies : \E sg \in Signatures(b) :
         LET r == [body |-> b, signature |-> sg]
             status == ResponseOf(r)
         IN  /\ response' = [response EXCEPT ![t] = status]
             /\ arrival' = [arrival EXCEPT ![t] = ArrivalOf(b, sg)]
             /\ IF status = 204
                THEN /\ pc' = [pc EXCEPT ![t] = "scheduled"]
                     /\ req' = [req EXCEPT ![t] = r]
                ELSE /\ pc' = [pc EXCEPT ![t] = "rejected"]
                     /\ req' = req
    /\ UNCHANGED <<calls, results, next_result_id, web_call, db_call, existing_result,
                   mutated>>

\* --------------------------------------------------------- process_webhook
call_data(t) == req[t].body.call
event(t) == req[t].body.event
retell_call_id(t) == Get(call_data(t), "call_id", None)

Finish(t, how) ==
    /\ pc' = [pc EXCEPT ![t] = how]
    /\ req' = [req EXCEPT ![t] = NoRequest]
    /\ db_call' = [db_call EXCEPT ![t] = {}]
    /\ existing_result' = [existing_result EXCEPT ![t] = {}]

\* faulty variant: a status event for a call id without Call stores a Call with
\* the event's status instead of being dropped
process_webhook_drop_upsert(t) ==
    /\ pc[t] = "scheduled"
    /\ retell_call_id(t) = None \/ session_get(calls, retell_call_id(t)) = {}
    /\ calls' = IF retell_call_id(t) \in CallIds /\ event(t) \in {"call_started", "call_ended"}
                THEN (retell_call_id(t) :>
                        [NewCall(retell_call_id(t), web_call[retell_call_id(t)].request)
                            EXCEPT !.status = IF event(t) = "call_started"
                                              THEN StartedStatus ELSE "failed"]) @@ calls
                ELSE calls
    /\ Finish(t, "dropped")
    /\ UNCHANGED <<results, next_result_id, web_call, response, arrival, mutated>>

\* lines 87-115: no call_id, or no Call with that id: the event is dropped
process_webhook_drop(t) ==
    /\ pc[t] = "scheduled"
    /\ retell_call_id(t) = None \/ session_get(calls, retell_call_id(t)) = {}
    /\ Finish(t, "dropped")
    /\ UNCHANGED <<calls, results, next_result_id, web_call, response, arrival, mutated>>

\* faulty variant: one session shared by the tasks: after a failed event it
\* refuses further work
process_webhook_get_shared_session(t) ==
    /\ pc[t] = "scheduled"
    /\ \A u \in Requests : pc[u] # "rolled_back"
    /\ retell_call_id(t) # None
    /\ session_get(calls, retell_call_id(t)) # {}
    /\ db_call' = [db_call EXCEPT ![t] = session_get(calls, retell_call_id(t))]
    /\ pc' = [pc EXCEPT ![t] = "found"]
    /\ UNCHANGED <<calls, results, next_result_id, web_call, req, response, arrival,
                   existing_result, mutated>>

\* line 111: session.get(Call, retell_call_id) finds the Call
process_webhook_get(t) ==
    /\ pc[t] = "scheduled"
    /\ retell_call_id(t) # None
    /\ session_get(calls, retell_call_id(t)) # {}
    /\ db_call' = [db_call EXCEPT ![t] = session_get(calls, retell_call_id(t))]
    /\ pc' = [pc EXCEPT ![t] = "found"]
    /\ UNCHANGED <<calls, results, next_result_id, web_call, req, response, arrival,
                   existing_result, mutated>>

\* line 111: session.get raises, outside the try block
process_webhook_get_fails(t) ==
    /\ pc[t] = "scheduled"
    /\ retell_call_id(t) # None
    /\ Finish(t, "crashed")
    /\ UNCHANGED <<calls, results, next_result_id, web_call, response, arrival, mutated>>

TheCall(t) == CHOOSE c \in db_call[t] : TRUE
TheResult(t) == CHOOSE r \in existing_result[t] : TRUE

\* the status a status event assigns to db_call
assigned_status(t) ==
    IF event(t) = "call_started" THEN StartedStatus
    ELSE EndedStatus(Get(call_data(t), "call_status", "unknown"))

\* faulty variant: call_ended also stores an empty CallResult for the Call
process_webhook_status_with_result(t) ==
    /\ pc[t] = "found"
    /\ event(t) \in {"call_started", "call_ended"}
    /\ calls' = CommitStatus(calls, TheCall(t), assigned_status(t))
    /\ IF event(t) = "call_ended"
       THEN /\ results' = CommitResultInsert(results, next_result_id, TheCall(t).id, "",
                                             extract_structured_data(call_data(t)))
            /\ next_result_id' = next_result_id + 1
       ELSE UNCHANGED <<results, next_result_id>>
    /\ mutated' = [mutated EXCEPT ![t] = Touched(t)]
    /\ Finish(t, "applied")
    /\ UNCHANGED <<web_call, response, arrival>>

\* lines 118-134: call_started / call_ended assign the status and commit
process_webhook_status(t) ==
    /\ pc[t] = "found"
    /\ event(t) \in {"call_started", "call_ended"}
    /\ calls' = CommitStatus(calls, TheCall(t), assigned_status(t))
    /\ UNCHANGED results
    /\ mutated' = [mutated EXCEPT ![t] = Touched(t)]
    /\ Finish(t, "applied")
    /\ UNCHANGED <<next_result_id, web_call, response, arrival>>

\* lines 141-143: call_analyzed looks for the CallResult of the Call
process_webhook_select(t) ==
    /\ pc[t] = "found"
    /\ event(t) = "call_analyzed"
    /\ \E found \in SelectFirst(results, TheCall(t).id) :
         existing_result' = [existing_result EXCEPT ![t] = found]
    /\ pc' = [pc EXCEPT ![t] = "selected"]
    /\ UNCHANGED <<calls, results, next_result_id, web_call, req, response, arrival,
                   db_call, mutated>>

\* faulty variant: the commit of call_analyzed also writes back the Call as it
\* was loaded
process_webhook_analyzed_writes_call(t) ==
    /\ pc[t] = "selected"
    /\ ~extract_raises(call_data(t))
    /\ LET transcript == Get(call_data(t), "transcript", "")
           structured_data == extract_structured_data(call_data(t))
       IN  IF existing_result[t] # {}
           THEN /\ results' = CommitResultUpdate(results, TheResult(t), transcript,
                                                 structured_data)
                /\ UNCHANGED next_result_id
           ELSE /\ results' = CommitResultInsert(results, next_result_id, TheCall(t).id,
                                                 transcript, structured_data)
                /\ next_result_id' = next_result_id + 1
    /\ calls' = [calls EXCEPT ![TheCall(t).id] = TheCall(t)]
    /\ mutated' = [mutated EXCEPT ![t] = Touched(t)]
    /\ Finish(t, "applied")
    /\ UNCHANGED <<web_call, response, arrival>>

\* lines 145-163: call_analyzed updates the CallResult found or inserts one
process_webhook_analyzed(t) ==
    /\ pc[t] = "selected"
    /\ ~extract_raises(call_data(t))
    /\ LET transcript == Get(call_data(t), "transcript", "")
           structured_data == extract_structured_data(call_data(t))
       IN  IF existing_result[t] # {}
           THEN /\ results' = CommitResultUpdate(results, TheResult(t), transcript,
                                                 structured_data)
                /\ UNCHANGED next_result_id
           ELSE /\ results' = CommitResultInsert(results, next_result_id, TheCall(t).id,
                                                 transcript, structured_data)
                /\ next_result_id' = next_result_id + 1
    /\ UNCHANGED calls
    /\ mutated' = [mutated EXCEPT ![t] = Touched(t)]
    /\ Finish(t, "applied")
    /\ UNCHANGED <<web_call, response, arrival>>

Raise(t) ==
    /\ pc' = [pc EXCEPT ![t] = "except"]
    /\ UNCHANGED <<next_result_id, web_call, req, response, arrival, db_call,
                   existing_result>>

\* lines 141-143 raise: the select fails
process_webhook_select_fails(t) ==
    /\ pc[t] = "found"
    /\ event(t) = "call_analyzed"
    /\ UNCHANGED <<calls, results, mutated>>
    /\ Raise(t)

\* line 145 raises: extract_structured_data meets a null where a mapping is due
process_webhook_extract_raises(t) ==
    /\ pc[t] = "selected"
    /\ extract_raises(call_data(t))
    /\ UNCHANGED <<calls, results, mutated>>
    /\ Raise(t)

\* session.commit() of a status event raises
process_webhook_status_commit_fails(t) ==
    /\ pc[t] = "found"
    /\ event(t) \in {"call_started", "call_ended"}
    /\ calls' = CommitFailed(calls, CommitStatus(calls, TheCall(t), assigned_status(t)))
    /\ UNCHANGED results
    /\ mutated' = [mutated EXCEPT ![t] = Touched(t)]
    /\ Raise(t)

\* session.commit() of call_analyzed raises
process_webhook_analyzed_commit_fails(t) ==
    /\ pc[t] = "selected"
    /\ ~extract_raises(call_data(t))
    /\ LET transcript == Get(call_data(t), "transcript", "")
           structured_data == extract_structured_data(call_data(t))
       IN  results' = CommitFailed(results,
              IF existing_result[t] # {}
              THEN CommitResultUpdate(results, TheResult(t), transcript, structured_data)
              ELSE CommitResultInsert(results, next_result_id, TheCall(t).id,
                                      transcript, structured_data))
    /\ UNCHANGED calls
    /\ mutated' = [mutated EXCEPT ![t] = Touched(t)]
    /\ Raise(t)

\* lines 165-167: the error is logged and session.rollback() succeeds
process_webhook_rollback(t) ==
    /\ pc[t] = "except"
    /\ Finish(t, "rolled_back")
    /\ UNCHANGED <<calls, results, next_result_id, web_call, response, arrival, mutated>>

\* line 167: session.rollback() raises inside the except block
process_webhook_rollback_fails(t) ==
    /\ pc[t] = "except"
    /\ Finish(t, "crashed")
    /\ UNCHANGED <<calls, results, next_result_id, web_call, response, arrival, mutated>>

Next ==
    \/ \E id \in CallIds : create_web_call_vendor(id)
    \/ \E id \in CallIds : create_web_call_vendor_fails(id)
    \/ \E id \in CallIds : create_web_call_commit(id)
    \/ \E id \in CallIds : create_web_call_commit_fails(id)
    \/ \E t \in Requests : retell_webhook(t)
    \/ \E t \in Requests : process_webhook_drop(t)
    \/ \E t \in Requests : process_webhook_get(t)
    \/ \E t \in Requests : process_webhook_get_fails(t)
    \/ \E t \in Requests : process_webhook_status(t)
    \/ \E t \in Requests : process_webhook_select(t)
    \/ \E t \in Requests : process_webhook_analyzed(t)
    \/ \E t \in Requests : process_webhook_select_fails(t)
    \/ \E t \in Requests : process_webhook_extract_raises(t)
    \/ \E t \in Requests : process_webhook_status_commit_fails(t)
    \/ \E t \in Requests : process_webhook_analyzed_commit_fails(t)
    \/ \E t \in Requests : process_webhook_rollback(t)
    \/ \E t \in Requests : process_webhook_rollback_fails(t)

Spec == Init /\ [][Next]_vars

TypeOK ==
    /\ DOMAIN calls \subseteq CallIds
    /\ \A i \in DOMAIN calls : calls[i].status \in Statuses
    /\ \A t \in Requests : response[t] \in {0, 204, 400, 401, 500}

\* --------------------------------------------------------------- get_call
\* the fields CallResponse requires (schemas/call.py: no default given)
CallResponseRequired ==
    {"id", "retell_agent_id", "driver_name", "phone_number", "load_number", "status",
     "retell_call_id", "created_at", "updated_at"}
\* the keys of response_data
response_data_keys ==
    {"id", "agent_id", "driver_name", "phone_number", "load_number", "status",
     "created_at", "updated_at", "transcript", "structured_data"}
\* response_model=CallResponse accepts the mapping returned
CallResponse(keys) == CallResponseRequired \subseteq keys

\* GET /api/calls/{call_id}: the answers possible (the select has no ORDER BY):
\* 404 without Call, 500 when the response does not validate, else 200 with
\* the CallResult found ({} when there is none)
get_call(call_id) ==
    IF session_get(calls, call_id) = {}
    THEN {[status_code |-> 404, call_result |-> {}]}
    ELSE {IF CallResponse(response_data_keys)
          THEN [status_code |-> 200, call_result |-> found]
          ELSE [status_code |-> 500, call_result |-> {}] :
            found \in SelectFirst(results, call_id)}

\* ----------------------------------------------------- the task runs
\* the next step of the background task of request t, whatever its outcome
process_webhook(t) ==
    \/ process_webhook_drop(t)
    \/ process_webhook_get(t)
    \/ process_webhook_get_fails(t)
    \/ process_webhook_status(t)
    \/ process_webhook_select(t)
    \/ process_webhook_analyzed(t)
    \/ process_webhook_select_fails(t)
    \/ process_webhook_extract_raises(t)
    \/ process_webhook_status_commit_fails(t)
    \/ process_webhook_analyzed_commit_fails(t)
    \/ process_webhook_rollback(t)
    \/ process_webhook_rollback_fails(t)

\* background_tasks.add_task: the framework runs the task once the response is
\* sent, and every store call of the task returns or raises
FairSpec == Spec /\ \A t \in Requests : WF_vars(process_webhook(t))

\* ------------------------------------------- the extractor on its inputs
\* call_outcome values: those of the analysis schema and of the prompt, another
\* case, null, no key
\* the call_outcome the system prompt tells the agent to record for an
\* emergency call (prompts.py, Data Collection Requirements)
PromptEmergencyOutcome == "Emergency Escalation"

OutcomeSamples ==
    {"Emergency", "emergency", PromptEmergencyOutcome, "In-Transit Update",
     "Arrival Confirmation", None, Absent}

\* custom_analysis_data mappings: each sampled field missing, null or set
ExtractCustoms ==
    {[NoCustom EXCEPT !["call_outcome"] = o, !["emergency_type"] = e,
                      !["safety_status"] = s, !["driver_status"] = d, !["eta"] = a] :
        o \in OutcomeSamples, e \in {Absent, None, "Breakdown"}, s \in {Absent, "Safe"},
        d \in {Absent, None, "Arrived"}, a \in {Absent, "5 pm"}}

\* the call data handed to extract_structured_data
ExtractCalls ==
    {[NoCall EXCEPT !.call_id = "call_1", !.transcript = tr,
                    !.call_analysis_kind = "dict", !.call_analysis = SomeBuiltin,
                    !.custom_analysis_data_kind = "dict", !.custom_analysis_data = c] :
        c \in ExtractCustoms, tr \in {Absent, "t1"}}
    \cup {[NoCall EXCEPT !.call_id = "call_1", !.transcript = tr,
                         !.call_analysis_kind = k] :
            k \in {Absent, None}, tr \in {Absent, "t1"}}
    \cup {[NoCall EXCEPT !.call_id = "call_1", !.transcript = tr,
                         !.call_analysis_kind = "dict",
                         !.call_analysis = SomeBuiltin,
                         !.custom_analysis_data_kind = k] :
            k \in {Absent, None}, tr \in {Absent, "t1"}}

\* the CallResult an earlier call_analyzed of call_1 left behind
EarlierResult ==
    [id |-> 1, call_id |-> "call_1", transcript |-> "t0",
     structured_data |-> extract_structured_data([NoCall EXCEPT !.call_id = "call_1"])]

\* a call_analyzed event for the stored Call call_1 has been acknowledged and its
\* task stands before line 145, with the CallResult of call_1 selected if one
\* is stored
ExtractInit ==
    /\ \E request \in CallCreates :
         /\ calls = ("call_1" :> NewCall("call_1", request))
         /\ web_call = [i \in CallIds |-> [pc |-> "stored", request |-> request]]
         /\ db_call = [t \in Requests |->
                         IF t = 1 THEN {NewCall("call_1", request)} ELSE {}]
    /\ \E stored \in {{}, {EarlierResult}} :
         /\ results = stored
         /\ next_result_id = Cardinality(stored) + 1
         /\ existing_result = [t \in Requests |-> IF t = 1 THEN stored ELSE {}]
    /\ pc = [t \in Requests |-> IF t = 1 THEN "selected" ELSE "idle"]
    /\ \E c \in ExtractCalls :
         LET b == Envelope("call_analyzed", c)
         IN  req = [t \in Requests |->
                      IF t = 1
                      THEN [body |-> b, signature |-> {Sign(Serialize(b), retell_api_key)}]
                      ELSE NoRequest]
    /\ response = [t \in Requests |-> IF t = 1 THEN 204 ELSE 0]
    /\ arrival = [t \in Requests |-> IF t = 1 THEN "call_analyzed" ELSE "none"]
    /\ mutated = [t \in Requests |-> FALSE]

ExtractNext ==
    \/ \E t \in Requests : process_webhook_analyzed(t)
    \/ \E t \in Requests : process_webhook_extract_raises(t)
    \/ \E t \in Requests : process_webhook_rollback(t)

ExtractSpec == ExtractInit /\ [][ExtractNext]_vars

\* ------------------------------------- the webhook on a store in service
\* CallResult rows that earlier call_analyzed events for call_1 have stored
RowOf(id, c) ==
    [id |-> id, call_id |-> "call_1", transcript |-> Get(c, "transcript", ""),
     structured_data |-> extract_structured_data(c)]
ArrivalCall ==
    [NoCall EXCEPT !.call_id = "call_1", !.transcript = "t1",
                   !.call_analysis_kind = "dict", !.call_analysis = SomeBuiltin,
                   !.custom_analysis_data_kind = "dict",
                   !.custom_analysis_data = ArrivalCustom]
EmergencyCall ==
    [ArrivalCall EXCEPT !.transcript = "t2", !.custom_analysis_data = EmergencyCustom]
\* the CallResults that two concurrent call_analyzed events insert (both
\* selects before either commit)
StoredResults == {RowOf(1, ArrivalCall), RowOf(2, EmergencyCall)}

\* call_1 was provisioned by create_web_call and earlier events have been
\* processed: a call_started, and two call_analyzed at the same time
StoredInit ==
    /\ \E request \in CallCreates :
         /\ calls = ("call_1" :> [NewCall("call_1", request) EXCEPT !.status = StartedStatus])
         /\ web_call = [i \in CallIds |-> [pc |-> "stored", request |-> request]]
    /\ results = StoredResults
    /\ next_result_id = Cardinality(results) + 1
    /\ pc = [t \in Requests |-> "idle"]
    /\ req = [t \in Requests |-> NoRequest]
    /\ response = [t \in Requests |-> 0]
    /\ arrival = [t \in Requests |-> "none"]
    /\ db_call = [t \in Requests |-> {}]
    /\ existing_result = [t \in Requests |-> {}]
    /\ mutated = [t \in Requests |-> FALSE]

StoredNext ==
    \/ \E t \in Requests : retell_webhook(t)
    \/ \E t \in Requests : process_webhook_drop(t)
    \/ \E t \in Requests : process_webhook_get(t)
    \/ \E t \in Requests : process_webhook_get_fails(t)
    \/ \E t \in Requests : process_webhook_status(t)
    \/ \E t \in Requests : process_webhook_select(t)
    \/ \E t \in Requests : process_webhook_analyzed(t)
    \/ \E t \in Requests : process_webhook_select_fails(t)
    \/ \E t \in Requests : process_webhook_extract_raises(t)
    \/ \E t \in Requests : process_webhook_status_commit_fails(t)
    \/ \E t \in Requests : process_webhook_analyzed_commit_fails(t)
    \/ \E t \in Requests : process_webhook_rollback(t)
    \/ \E t \in Requests : process_webhook_rollback_fails(t)

StoredSpec == StoredInit /\ [][StoredNext]_vars

\* ------------------------------------------- the request body as bytes
\* a transcript holding a control character: json.dumps writes it as the escape
\* \u001f, which json.loads reads the same when spelled \u001F
ControlTranscript == "t1<1f>"
\* the bytes of a request body: the JSON value they spell and how they spell it,
\* "compact" as json.dumps(..., separators=(",", ":"), ensure_ascii=False) does,
\* "respelled" for other bytes that parse to the same value, "broken" for bytes
\* that are no JSON
RawBody(value, spelling) == [value |-> value, spelling |-> spelling]
\* await request.json(): the value, whatever the spelling
request_json(raw) == raw.value
\* the text the vendor signs: the bytes it sends
TextOf(raw) ==
    IF raw.spelling = "compact" THEN Serialize(raw.value)
    ELSE <<"json", raw.value, raw.spelling>>
\* some payloads whose compact text is one byte away from that of payload P
ValueNeighbours(P) ==
    {[P EXCEPT !.call.transcript = IF @ = "t2" THEN "t1" ELSE "t2"],
     [P EXCEPT !.event = "call_endee"]}
\* the compact text of P has a byte that can be respelled (an escape's hex digit)
Respellable(P) == P.call.transcript = ControlTranscript
\* what a change of one byte on the way can make of the request
Transits == {"intact", "body_value", "body_respelled", "body_broken", "signature"}
ReceivedBodies(P, transit) ==
    IF transit = "body_value" THEN {RawBody(v, "compact") : v \in ValueNeighbours(P)}
    ELSE IF transit = "body_respelled" THEN {RawBody(P, "respelled")}
    ELSE IF transit = "body_broken" THEN {RawBody(NoBody, "broken")}
    ELSE {RawBody(P, "compact")}
ReceivedSignature(sg, transit) ==
    IF transit = "signature" THEN {Append(x, "changed") : x \in sg} ELSE sg

VerifyPayloads ==
    {Envelope(e, [NoCall EXCEPT !.call_id = i, !.transcript = tr]) :
        e \in Events, i \in {"call_1", UnknownCallId},
        tr \in {"t1", "t2", ControlTranscript, Absent}}

\* the vendor has signed the compact text of a payload with the key the
\* receiver is configured with; one byte may change on the way
VerifyInit ==
    /\ calls = <<>>
    /\ results = {}
    /\ next_result_id = 1
    /\ web_call = [i \in CallIds |-> [pc |-> "idle", request |-> NoCallCreate]]
    /\ pc = [t \in Requests |-> "idle"]
    /\ \E P \in VerifyPayloads : \E K \in {retell_api_key, OtherKey} :
         req = [t \in Requests |->
                  IF t = 1
                  THEN [body |-> P, signature |-> {Sign(TextOf(RawBody(P, "compact")), K)}]
                  ELSE NoRequest]
    /\ response = [t \in Requests |-> 0]
    /\ \E transit \in Transits :
         /\ transit = "body_respelled" => Respellable(req[1].body)
         /\ arrival = [t \in Requests |-> IF t = 1 THEN transit ELSE "none"]
    /\ db_call = [t \in Requests |-> {}]
    /\ existing_result = [t \in Requests |-> {}]
    /\ mutated = [t \in Requests |-> FALSE]

\* lines 52-73 on the bytes received, the receiver holding the vendor's key
retell_webhook_bytes(t) ==
    /\ pc[t] = "idle"
    /\ arrival[t] \in Transits
    /\ \E raw \in ReceivedBodies(req[t].body, arrival[t]) :
         LET K == (CHOOSE sg \in req[t].signature : TRUE)[2]
             header == ReceivedSignature(req[t].signature, arrival[t])
             post_data == request_json(raw)
             status == IF raw.spelling = "broken" THEN 500
                       ELSE IF ~verify(Serialize(post_data), K, header) THEN 401
                       ELSE IF ~WebhookPayload(post_data) THEN 400
                       ELSE 204
         IN  /\ response' = [response EXCEPT ![t] = status]
             /\ pc' = [pc EXCEPT ![t] = IF status = 204 THEN "scheduled" ELSE "rejected"]
             /\ req' = [req EXCEPT ![t] = [body |-> post_data, signature |-> header]]
    /\ UNCHANGED <<calls, results, next_result_id, web_call, arrival, db_call,
                   existing_result, mutated>>

VerifyNext == \E t \in Requests : retell_webhook_bytes(t)

VerifySpec == VerifyInit /\ [][VerifyNext]_vars

\* ------------------------------------------------------------ the prompts
\* A prompt is the sequence of its characters.  PromptAlphabet has a letter, the
\* character of the separator, and the newline.
MaxLen == 3             \* longest custom prompt
NL == "\n"
PromptAlphabet == {"a", "-", NL}
RECURSIVE TextsUpTo(_)
TextsUpTo(n) ==
    IF n = 0 THEN {<<>>}
    ELSE LET shorter == TextsUpTo(n - 1)
         IN  shorter \cup {Append(s, c) : s \in {x \in shorter : Len(x) = n - 1},
                                           c \in PromptAlphabet}
CustomPrompts == TextsUpTo(MaxLen)

\* SYSTEM_PROMPT_PREFIX: the sections of the system prompt (a heading, bullet
\* lines that begin with a single "-", no "---" among them), then a blank line,
\* the separator "---" and a blank line
SYSTEM_PROMPT_PREFIX ==
    <<"a", NL, "-", "a", NL, NL, "-", "-", "-", NL, NL>>

\* return SYSTEM_PROMPT_PREFIX + custom_prompt
build_full_prompt(custom_prompt) == SYSTEM_PROMPT_PREFIX \o custom_prompt

separator == <<"-", "-", "-">>
\* where str.split(separator, 1) cuts: the start of the first occurrence
Occurrences(text) ==
    {i \in 1..(Len(text) - Len(separator) + 1) :
        SubSeq(text, i, i + Len(separator) - 1) = separator}
FirstOccurrence(text) ==
    CHOOSE i \in Occurrences(text) : \A j \in Occurrences(text) : i <= j
\* str.lstrip("\n")
RECURSIVE lstrip(_)
lstrip(text) == IF text # <<>> /\ Head(text) = NL THEN lstrip(Tail(text)) ELSE text

\* parts = full_prompt.split("---", 1); parts[1].lstrip("\n") if there are two
\* parts, else full_prompt
extract_user_prompt(full_prompt) ==
    IF Occurrences(full_prompt) # {}
    THEN lstrip(SubSeq(full_prompt, FirstOccurrence(full_prompt) + Len(separator),
                       Len(full_prompt)))
    ELSE full_prompt

NoPrompt == [prompt |-> <<>>, full_prompt |-> <<>>, extracted |-> <<>>]

\* request 1 carries a custom prompt; nothing is stored
PromptInit ==
    /\ calls = <<>>
    /\ results = {}
    /\ next_result_id = 1
    /\ web_call = [i \in CallIds |-> [pc |-> "idle", request |-> NoCallCreate]]
    /\ pc = [t \in Requests |-> "idle"]
    /\ \E p \in CustomPrompts :
         req = [t \in Requests |-> IF t = 1 THEN [NoPrompt EXCEPT !.prompt = p]
                                   ELSE NoPrompt]
    /\ response = [t \in Requests |-> 0]
    /\ arrival = [t \in Requests |-> "none"]
    /\ db_call = [t \in Requests |-> {}]
    /\ existing_result = [t \in Requests |-> {}]
    /\ mutated = [t \in Requests |-> FALSE]

\* the custom prompt is combined with the system sections
build_full_prompt_step(t) ==
    /\ pc[t] = "idle"
    /\ t = 1
    /\ req' = [req EXCEPT ![t].full_prompt = build_full_prompt(req[t].prompt)]
    /\ pc' = [pc EXCEPT ![t] = "built"]
    /\ UNCHANGED <<calls, results, next_result_id, web_call, response, arrival,
                   db_call, existing_result, mutated>>

\* the custom prompt is taken out of the full prompt again
extract_user_prompt_step(t) ==
    /\ pc[t] = "built"
    /\ req' = [req EXCEPT ![t].extracted = extract_user_prompt(req[t].full_prompt)]
    /\ pc' = [pc EXCEPT ![t] = "extracted"]
    /\ UNCHANGED <<calls, results, next_result_id, web_call, response, arrival,
                   db_call, existing_result, mutated>>

\* extract_user_prompt is applied to a prompt that was stored without the
\* system sections
extract_user_prompt_plain(t) ==
    /\ pc[t] = "idle"
    /\ t = 1
    /\ req' = [req EXCEPT ![t].full_prompt = req[t].prompt,
                          ![t].extracted = extract_user_prompt(req[t].prompt)]
    /\ pc' = [pc EXCEPT ![t] = "extracted_plain"]
    /\ UNCHANGED <<calls, results, next_result_id, web_call, response, arrival,
                   db_call, existing_result, mutated>>

PromptNext ==
    \/ \E t \in Requests : build_full_prompt_step(t)
    \/ \E t \in Requests : extract_user_prompt_step(t)
    \/ \E t \in Requests : extract_user_prompt_plain(t)

PromptSpec == PromptInit /\ [][PromptNext]_vars

\* ------------------------------------------------- create_web_call alone
\* the request bodies of POST webcall/
CreateRequests ==
    [agent_id : {"agent_1", "agent_2"}, driver_name : {"Ann", "Bob"},
     phone_number : {"+100"}, load_number : {"L1", "L2"}]

\* a Call provisioned before, and the CallResult of its analysis
OtherCallId == "call_0"
OtherCall(status) ==
    [NewCall(OtherCallId, [agent_id |-> "agent_0", driver_name |-> "Cy",
                           phone_number |-> "+900", load_number |-> "L0"])
        EXCEPT !.status = status]
OtherResult == [RowOf(1, ArrivalCall) EXCEPT !.call_id = OtherCallId]

\* the store holds the other Call, with or without its CallResult; no webhook
\* request is under way
CreateInit ==
    /\ \E status \in {"pending", "in-progress", "completed", "failed"} :
         calls = (OtherCallId :> OtherCall(status))
    /\ \E stored \in {{}, {OtherResult}} :
         /\ results = stored
         /\ next_result_id = Cardinality(stored) + 1
    /\ web_call = [i \in CallIds |-> [pc |-> "idle", request |-> NoCallCreate]]
    /\ pc = [t \in Requests |-> "idle"]
    /\ req = [t \in Requests |-> NoRequest]
    /\ response = [t \in Requests |-> 0]
    /\ arrival = [t \in Requests |-> "none"]
    /\ db_call = [t \in Requests |-> {}]
    /\ existing_result = [t \in Requests |-> {}]
    /\ mutated = [t \in Requests |-> FALSE]

CreateNext ==
    \/ \E id \in CallIds : \E request \in CreateRequests :
         create_web_call_vendor_of(id, request)
    \/ \E id \in CallIds : create_web_call_vendor_fails(id)
    \/ \E id \in CallIds : create_web_call_commit(id)
    \/ \E id \in CallIds : create_web_call_commit_fails(id)

CreateSpec == CreateInit /\ [][CreateNext]_vars

\* the status code of the endpoint's answer: 201 on return, 500 from the
\* except block; 0 while the request is not answered
create_web_call_status(id) ==
    IF web_call[id].pc = "stored" THEN 201
    ELSE IF web_call[id].pc = "failed" THEN 500 ELSE 0

\* ================================================================ claims
\* a step of request t: its position changes
Steps(t) == pc'[t] # pc[t]
\* the Call row is, at the commit, still as request t loaded it (no other
\* event has committed a change to it since the lookup)
CallAsLoaded(t) == db_call[t] # {} /\ db_call[t] = {calls[TheCall(t).id]}
\* the CallResults of the Call are, at the commit, as request t's select saw them
ResultsAsLoaded(t) == db_call[t] # {} /\ existing_result[t] = ResultsOf(TheCall(t).id)

\* C1: in every reachable state each Call has at most one CallResult referencing
\* it, whatever the interleaving of the call_analyzed events for it.
C1_AtMostOneResultPerCall ==
    \A id \in DOMAIN calls : Cardinality(ResultsOf(id)) <= 1

\* C2: a request whose signature does not verify (wrong or missing header) is
\* answered 401, no task is scheduled for it and it changes no record.
C2_BadSignatureRejected ==
    \A t \in Requests :
        arrival[t] \in {"unsigned", "badly_signed"} =>
            response[t] = 401 /\ pc[t] = "rejected" /\ ~mutated[t]

C2_Witness ==
    \E t, u \in Requests :
        /\ arrival[t] = "unsigned" /\ response[t] = 401
        /\ arrival[u] = "badly_signed" /\ response[u] = 401
        /\ DOMAIN calls # {}

\* C3: a call_started event processed for a known Call leaves the Call's status
\* "in-progress", whatever the status was (the event's lookup and commit not
\* separated by another commit to the same Call).
C3_StartedSetsInProgress ==
    [][\A t \in Requests :
        (pc[t] = "found" /\ event(t) = "call_started" /\ pc'[t] = "applied"
         /\ CallAsLoaded(t))
        => calls'[retell_call_id(t)].status = "in-progress"]_vars

C3_Witness ==
    \E t, u \in Requests :
        /\ arrival[t] = "call_ended" /\ pc[t] = "applied"
        /\ arrival[u] = "call_started" /\ pc[u] = "applied" /\ mutated[u]
        /\ \E id \in DOMAIN calls : calls[id].status = "in-progress"

\* C4: a call_ended event processed for a known Call leaves the Call's status
\* "completed" when call.call_status is "ended" and "failed" for any other
\* value and when call_status is missing (lookup and commit not separated by
\* another commit to the same Call).
C4_EndedSetsCompletedOrFailed ==
    [][\A t \in Requests :
        (pc[t] = "found" /\ event(t) = "call_ended" /\ pc'[t] = "applied"
         /\ CallAsLoaded(t))
        => calls'[retell_call_id(t)].status =
              IF call_data(t).call_status = "ended" THEN "completed" ELSE "failed"]_vars

C4_Witness ==
    \E t, u \in Requests :
        /\ arrival[t] = "call_ended" /\ pc[t] = "applied" /\ mutated[t]
        /\ arrival[u] = "call_ended" /\ pc[u] = "applied" /\ mutated[u]
        /\ t # u
        /\ \E id \in DOMAIN calls : calls[id].status = "failed"

\* C5: call_analyzed processed for a known Call without CallResult stores exactly
\* one CallResult with the event's transcript and extracted data; processed
\* again afterwards it keeps the count at one and overwrites the transcript and
\* structured_data of that same row.
C5_AnalyzedUpserts ==
    [][\A t \in Requests :
        (pc[t] = "selected" /\ pc'[t] = "applied" /\ ResultsAsLoaded(t))
        => LET id == TheCall(t).id
               transcript == Get(call_data(t), "transcript", "")
               structured_data == extract_structured_data(call_data(t))
           IN  IF ResultsOf(id) = {}
               THEN \E r \in results' :
                      /\ r \notin results /\ results' = results \cup {r}
                      /\ r.call_id = id /\ r.transcript = transcript
                      /\ r.structured_data = structured_data
               ELSE \E r \in ResultsOf(id) :
                      results' = (results \ {r}) \cup
                         {[r EXCEPT !.transcript = transcript,
                                    !.structured_data = structured_data]}]_vars

C5_Witness ==
    \E t, u \in Requests :
        /\ t # u
        /\ arrival[t] = "call_analyzed" /\ pc[t] = "applied" /\ mutated[t]
        /\ arrival[u] = "call_analyzed" /\ pc[u] = "applied" /\ mutated[u]
        /\ Cardinality(results) = 1

\* C6: an event that resolves to no existing Call (call_id matches no row, or no
\* call_id) was acknowledged with 204 and is dropped: its processing creates
\* no Call and no CallResult and modifies no row.
C6_UnknownCallDropped ==
    /\ [](\A t \in Requests : pc[t] = "dropped" => response[t] = 204 /\ ~mutated[t])
    /\ [][\A t \in Requests :
            (pc[t] = "scheduled" /\ Steps(t)
             /\ (retell_call_id(t) = None \/ retell_call_id(t) \notin DOMAIN calls))
            => /\ pc'[t] \in {"dropped", "crashed"}
               /\ response[t] = 204 /\ response'[t] = 204
               /\ calls' = calls /\ results' = results
               /\ next_result_id' = next_result_id]_vars

C6_Witness ==
    \E t \in Requests :
        /\ pc[t] = "dropped" /\ arrival[t] = "call_ended" /\ response[t] = 204
        /\ DOMAIN calls # {}

\* C7: no failure of the store during the processing of an event leaves
\* process_webhook as an unhandled fault (at the Call lookup, the CallResult
\* lookup, the commit or the rollback).
C7_NoUnhandledFault ==
    \A t \in Requests : pc[t] # "crashed"

\* C8: when the processing of an event raises at the commit, the persisted Call
\* status and CallResults are what they were before the event; the rollback
\* leaves them so, and an event that was rolled back has changed nothing.
C8_FailedCommitChangesNothing ==
    /\ [](\A t \in Requests : pc[t] \in {"except", "rolled_back"} => ~mutated[t])
    /\ [][\A t \in Requests :
            ((pc[t] \in {"found", "selected"} /\ pc'[t] = "except")
             \/ (pc[t] = "except" /\ Steps(t)))
            => calls' = calls /\ results' = results]_vars

C8_Witness ==
    \E t \in Requests :
        /\ pc[t] = "rolled_back" /\ arrival[t] \in {"call_started", "call_ended"}
        /\ \E id \in DOMAIN calls : calls[id].status = "pending"

\* C9: the receiver changes no record between the arrival of a request and its
\* response; every change a request causes to a table happens after its 204,
\* and a response once given never changes, whatever happens to the task.
C9_MutationOnlyAfterAck ==
    /\ [](\A t \in Requests : mutated[t] => response[t] = 204)
    /\ [][\A t \in Requests :
            /\ (Steps(t) /\ (calls' # calls \/ results' # results)) => response[t] = 204
            /\ response[t] # 0 => response'[t] = response[t]]_vars

C9_Witness ==
    \E t, u \in Requests :
        /\ mutated[t] /\ response[t] = 204
        /\ pc[u] \in {"rolled_back", "crashed"} /\ response[u] = 204

\* C10: a request whose signature verifies but whose body is no well-formed
\* envelope (unknown or missing event, call missing or no mapping, body no JSON
\* object) is answered 400; no task is scheduled and no record changes.
C10_MalformedRejected ==
    \A t \in Requests :
        arrival[t] = "malformed" =>
            response[t] = 400 /\ pc[t] = "rejected" /\ ~mutated[t]

C10_Witness ==
    \E t \in Requests :
        /\ arrival[t] = "malformed" /\ response[t] = 400 /\ pc[t] = "rejected"
        /\ DOMAIN calls # {}

\* C11: every request to the webhook endpoint is answered with 204, 401 or 400
\* and nothing else: 401 when the signature does not verify, 400 when it
\* verifies but the payload is malformed (a body that is no JSON included),
\* 204 otherwise.
C11_OnlyThreeStatuses ==
    \A t \in Requests :
        arrival[t] # "none" =>
            /\ response[t] \in {204, 401, 400}
            /\ arrival[t] \in {"unsigned", "badly_signed"} => response[t] = 401
            /\ arrival[t] = "malformed" => response[t] = 400
            /\ arrival[t] = "unparsed" => response[t] \in {401, 400}
            /\ arrival[t] \in Events => response[t] = 204

\* the custom_analysis_data of request t's call data, when both mappings are there
HasCustom(t) ==
    call_data(t).call_analysis_kind = "dict" /\ call_data(t).custom_analysis_data_kind = "dict"
CustomOf(t) == call_data(t).custom_analysis_data

\* C12: for call data whose custom_analysis_data.call_outcome is "Emergency" the
\* extraction stored has exactly the five universal keys and the six emergency
\* keys, none of the normal-flow keys, and each emergency key carries the value
\* of custom_analysis_data, or null when that key is missing.
C12_EmergencyFields ==
    [][\A t \in Requests :
        (pc[t] = "selected" /\ pc'[t] = "applied" /\ HasCustom(t)
         /\ CustomOf(t)["call_outcome"] = "Emergency")
        => /\ results' # results
           /\ \A r \in results' \ results :
                /\ DOMAIN r.structured_data = UniversalFields \cup EMERGENCY_FLOW_FIELD_NAMES
                /\ DOMAIN r.structured_data \cap NORMAL_FLOW_FIELD_NAMES = {}
                /\ r.structured_data["call_outcome"] = "Emergency"
                /\ \A k \in EMERGENCY_FLOW_FIELD_NAMES :
                     r.structured_data[k] =
                        IF CustomOf(t)[k] = Absent THEN None ELSE CustomOf(t)[k]]_vars

C12_Witness ==
    \E r \in results :
        /\ "emergency_type" \in DOMAIN r.structured_data
        /\ r.structured_data["call_outcome"] = "Emergency"
        /\ r.structured_data["emergency_type"] = "Breakdown"
        /\ r.structured_data["safety_status"] = None
        /\ "driver_status" \notin DOMAIN r.structured_data

\* C13: for call data whose call_outcome is anything but exactly "Emergency"
\* (another outcome, another case, null, missing, or no analysis data at all)
\* the extraction stored has exactly the five universal keys and the six
\* normal-flow keys and none of the emergency keys.
C13_NormalFields ==
    [][\A t \in Requests :
        (pc[t] = "selected" /\ pc'[t] = "applied"
         /\ ~(HasCustom(t) /\ CustomOf(t)["call_outcome"] = "Emergency"))
        => /\ results' # results
           /\ \A r \in results' \ results :
                /\ DOMAIN r.structured_data = UniversalFields \cup NORMAL_FLOW_FIELD_NAMES
                /\ DOMAIN r.structured_data \cap EMERGENCY_FLOW_FIELD_NAMES = {}
                /\ \A k \in NORMAL_FLOW_FIELD_NAMES :
                     r.structured_data[k] =
                        IF HasCustom(t) /\ CustomOf(t)[k] # Absent
                        THEN CustomOf(t)[k] ELSE None]_vars

C13_Witness ==
    /\ \E r \in results :
        /\ r.structured_data["call_outcome"] = "emergency"
        /\ "driver_status" \in DOMAIN r.structured_data
        /\ r.structured_data["driver_status"] = "Arrived"
        /\ r.structured_data["eta"] = None
        /\ "emergency_type" \notin DOMAIN r.structured_data
    /\ pc[1] = "applied"

\* request t commits with nothing of what it loaded changed by another request
\* since: the events are processed one after the other
InSuccession(t) ==
    /\ CallAsLoaded(t)
    /\ existing_result[t] \subseteq results
    /\ (pc[t] = "selected" /\ existing_result[t] = {}) => ResultsOf(TheCall(t).id) = {}
\* the store is as a processing of request t's event leaves it
AlreadyProcessed(t) ==
    IF event(t) = "call_analyzed"
    THEN \E r \in ResultsOf(TheCall(t).id) :
            /\ r.transcript = Get(call_data(t), "transcript", "")
            /\ r.structured_data = extract_structured_data(call_data(t))
    ELSE calls[TheCall(t).id].status = assigned_status(t)

\* C14: processing an event for a known Call once more, on the store as its
\* first processing left it, changes nothing: same Call status, same number
\* of CallResults, same transcript and structured_data, for call_started,
\* call_ended and call_analyzed.
C14_ReprocessingChangesNothing ==
    [][\A t \in Requests :
        (pc[t] \in {"found", "selected"} /\ pc'[t] = "applied"
         /\ InSuccession(t) /\ AlreadyProcessed(t))
        => calls' = calls /\ results' = results]_vars

C16_AnalyzedEventuallyStored ==
    /\ [](\A t \in Requests : arrival[t] = "call_analyzed" => response[t] = 204)
    /\ \A t \in Requests :
         (pc[t] = "scheduled" /\ event(t) = "call_analyzed"
          /\ retell_call_id(t) \in DOMAIN calls /\ HasCustom(t))
         ~> (\/ pc[t] \in {"rolled_back", "crashed"}
             \/ pc[t] = "applied" /\ \E id \in DOMAIN calls : ResultsOf(id) # {})
    /\ [][\A t \in Requests :
            (pc[t] = "selected" /\ pc'[t] = "applied" /\ HasCustom(t)
             /\ existing_result[t] \subseteq results)
            => \E r \in results' :
                 /\ r.call_id = TheCall(t).id
                 /\ existing_result[t] # {} => r.id = TheResult(t).id
                 /\ \A k \in DOMAIN r.structured_data \ BuiltinFields :
                      r.structured_data[k] = Get(CustomOf(t), k, None)
                 /\ CustomOf(t)["call_outcome"] # "Emergency"
                      => "emergency_type" \notin DOMAIN r.structured_data]_vars

C16_Witness ==
    \E t \in Requests :
        /\ pc[t] = "applied" /\ arrival[t] = "call_analyzed" /\ response[t] = 204
        /\ mutated[t]
        /\ \E r \in results :
             /\ r.call_id = "call_1"
             /\ "driver_status" \in DOMAIN r.structured_data
             /\ r.structured_data["driver_status"] = "Arrived"
             /\ r.structured_data["unloading_status"] = "In Door 12"
             /\ "emergency_type" \notin DOMAIN r.structured_data

\* C17: an event for a call id that the vendor has assigned but whose Call is
\* not yet committed by create_web_call is dropped when it is processed,
\* leaving both tables as they are; a dropped event never resumes; the Call
\* is then stored with status "pending", and its status changes only when an
\* event that found the Call commits.
C17_EarlyEventDropped ==
    [][/\ \A t \in Requests :
            /\ (pc[t] = "scheduled" /\ Steps(t)
                /\ retell_call_id(t) \in CallIds /\ retell_call_id(t) \notin DOMAIN calls)
               => /\ pc'[t] \in {"dropped", "crashed"}
                  /\ calls' = calls /\ results' = results
            /\ pc[t] = "dropped" => pc'[t] = "dropped" /\ req'[t] = NoRequest
       /\ \A id \in CallIds :
            /\ (id \notin DOMAIN calls /\ id \in DOMAIN calls')
               => /\ calls'[id].status = "pending"
                  /\ web_call[id].pc = "created" /\ web_call'[id].pc = "stored"
            /\ (id \in DOMAIN calls /\ id \in DOMAIN calls'
                /\ calls'[id].status # calls[id].status)
               => \E t \in Requests :
                    pc[t] = "found" /\ pc'[t] = "applied" /\ TheCall(t).id = id]_vars

\* a status event was dropped and the Call stored since is pending, while a
\* later event for the Call has found it and is about to commit
C17_Witness ==
    \E t, u \in Requests :
        /\ pc[t] = "dropped" /\ arrival[t] = "call_started" /\ response[t] = 204
        /\ web_call["call_1"].pc = "stored"
        /\ "call_1" \in DOMAIN calls /\ calls["call_1"].status = "pending"
        /\ pc[u] = "found" /\ event(u) = "call_ended"

\* C18: the CallResults change only in the commit of a call_analyzed event: no
\* step of a call_started or call_ended event changes any CallResult, and no
\* step of a call_analyzed event changes the status of any Call.
C18_ResultsOnlyByAnalyzed ==
    [][/\ (results' # results \/ next_result_id' # next_result_id)
            => \E t \in Requests :
                 pc[t] = "selected" /\ pc'[t] = "applied" /\ event(t) = "call_analyzed"
       /\ \A t \in Requests :
            /\ (Steps(t) /\ event(t) \in {"call_started", "call_ended"})
               => results' = results /\ next_result_id' = next_result_id
            /\ (Steps(t) /\ event(t) = "call_analyzed")
               => /\ DOMAIN calls' = DOMAIN calls
                  /\ \A id \in DOMAIN calls : calls'[id].status = calls[id].status]_vars

C18_Witness ==
    \E t, u \in Requests :
        /\ pc[t] = "applied" /\ arrival[t] = "call_ended" /\ mutated[t]
        /\ pc[u] = "applied" /\ arrival[u] = "call_analyzed" /\ mutated[u]
        /\ Cardinality(results) = 1
        /\ calls["call_1"].status = "completed"

\* C19: no step of the webhook receiver or processor adds or removes a Call, or
\* changes anything of a Call but its status; the set of Call ids grows only
\* by the commit of create_web_call, by the id the vendor returned, and
\* never shrinks.
C19_CallsOnlyByCreate ==
    [][/\ \A t \in Requests :
            Steps(t) =>
                /\ DOMAIN calls' = DOMAIN calls
                /\ \A id \in DOMAIN calls :
                     [calls'[id] EXCEPT !.status = calls[id].status] = calls[id]
       /\ DOMAIN calls' # DOMAIN calls
            => \E id \in CallIds :
                 /\ web_call[id].pc = "created" /\ web_call'[id].pc = "stored"
                 /\ id \notin DOMAIN calls
                 /\ DOMAIN calls' = DOMAIN calls \cup {id}]_vars

C19_Witness ==
    \E t, u \in Requests :
        /\ pc[t] = "applied" /\ mutated[t] /\ arrival[t] = "call_ended"
        /\ pc[u] = "dropped" /\ arrival[u] = "call_analyzed"
        /\ DOMAIN calls = {"call_1"} /\ calls["call_1"].status = "failed"

\* C20: the vendor's call id is the key everywhere: create_web_call stores the
\* Call under the id the vendor returned, with status "pending"; an event
\* carrying that id finds exactly that Call; every CallResult references the
\* id of its Call, and get_call of that id returns that CallResult.
C20_CallIdIsTheKey ==
    /\ [](\A id \in CallIds :
            web_call[id].pc = "stored" => id \in DOMAIN calls /\ calls[id].id = id)
    /\ [](\A t \in Requests :
            pc[t] \in {"found", "selected"}
            => db_call[t] # {} /\ TheCall(t).id = retell_call_id(t))
    /\ [](\A r \in results :
            /\ r.call_id \in DOMAIN calls
            /\ \A answer \in get_call(r.call_id) :
                 answer.status_code = 200 /\ answer.call_result = {r})
    /\ [][\A id \in CallIds :
            (web_call[id].pc = "created" /\ web_call'[id].pc = "stored")
            => calls'[id].status = "pending"]_vars

\* C21: once the processing of an event has failed and been rolled back, the
\* events of the other requests go on as if it had not happened: each of their
\* steps stays possible, their commits have their normal effect, and the
\* failed event stays without effect.
C21_FailureIsLocal ==
    /\ [](\A t, u \in Requests :
            (t # u /\ pc[t] = "rolled_back") =>
                /\ ~mutated[t]
                /\ pc[u] = "scheduled"
                     => ENABLED (process_webhook_drop(u) \/ process_webhook_get(u))
                /\ (pc[u] = "found" /\ event(u) \in {"call_started", "call_ended"})
                     => ENABLED process_webhook_status(u)
                /\ (pc[u] = "found" /\ event(u) = "call_analyzed")
                     => ENABLED process_webhook_select(u)
                /\ (pc[u] = "selected" /\ ~extract_raises(call_data(u)))
                     => ENABLED process_webhook_analyzed(u))
    /\ [][\A t, u \in Requests :
            (t # u /\ pc[t] = "rolled_back" /\ pc'[u] = "applied" /\ pc[u] # "applied")
            => /\ pc'[t] = "rolled_back"
               /\ (pc[u] = "found" /\ CallAsLoaded(u))
                    => calls'[TheCall(u).id].status = assigned_status(u)
               /\ (pc[u] = "selected" /\ existing_result[u] \subseteq results)
                    => \E r \in results' :
                         /\ r.call_id = TheCall(u).id
                         /\ r.transcript = Get(call_data(u), "transcript", "")
                         /\ r.structured_data = extract_structured_data(call_data(u))]_vars

\* the first request failed and was rolled back, the second, a call_ended, was
\* applied and the Call is completed
C21_Witness ==
    \E t, u \in Requests :
        /\ t < u
        /\ pc[t] = "rolled_back" /\ ~mutated[t]
        /\ pc[u] = "applied" /\ mutated[u] /\ arrival[u] = "call_ended"
        /\ calls["call_1"].status = "completed"

NormalKeys == UniversalFields \cup NORMAL_FLOW_FIELD_NAMES
EmergencyKeys == UniversalFields \cup EMERGENCY_FLOW_FIELD_NAMES

\* C23: the structured_data of every stored CallResult has the universal and
\* normal keys or the universal and emergency keys, never keys of both
\* flows; a call_analyzed that updates a CallResult stored by the other flow
\* replaces the mapping by the extraction of its own event, no key of the
\* previous flow remaining.
C23_OneFlowPerResult ==
    /\ [](\A r \in results : DOMAIN r.structured_data \in {NormalKeys, EmergencyKeys})
    /\ [][\A t \in Requests :
            (pc[t] = "selected" /\ pc'[t] = "applied" /\ existing_result[t] # {}
             /\ existing_result[t] \subseteq results
             /\ DOMAIN TheResult(t).structured_data
                  # DOMAIN extract_structured_data(call_data(t)))
            => \E r \in results' :
                 /\ r.id = TheResult(t).id
                 /\ r.structured_data = extract_structured_data(call_data(t))
                 /\ DOMAIN r.structured_data \cap DOMAIN TheResult(t).structured_data
                      = UniversalFields]_vars

\* two call_analyzed events were applied to one CallResult, which now holds the
\* emergency extraction of the later one
C23_Witness ==
    /\ \A t \in Requests : pc[t] = "applied" /\ mutated[t] /\ arrival[t] = "call_analyzed"
    /\ \E r \in results :
         /\ results = {r}
         /\ r.structured_data["call_outcome"] = "Emergency"
         /\ DOMAIN r.structured_data = EmergencyKeys

\* C24: in every reachable state the status of every Call is one of pending,
\* in-progress, completed and failed.
C24_StatusInEnumeration ==
    \A id \in DOMAIN calls : calls[id].status \in {"pending", "in-progress", "completed", "failed"}

\* a call_ended with a call_status the processor does not know has been applied
\* after a call_started
C24_Witness ==
    \E t, u \in Requests :
        /\ t < u
        /\ pc[t] = "applied" /\ arrival[t] = "call_started" /\ mutated[t]
        /\ pc[u] = "applied" /\ arrival[u] = "call_ended" /\ mutated[u]
        /\ calls["call_1"].status = "failed"

\* C25: call data whose call_outcome is the value the system prompt prescribes
\* for emergency calls is stored with the emergency fields (emergency_type,
\* safety_status, injury_status, emergency_location, load_secure,
\* escalation_status), each with the value of custom_analysis_data.
C25_PromptOutcomeSelectsEmergency ==
    [][\A t \in Requests :
        (pc[t] = "selected" /\ pc'[t] = "applied" /\ HasCustom(t)
         /\ CustomOf(t)["call_outcome"] = PromptEmergencyOutcome)
        => \A r \in results' \ results :
             /\ DOMAIN r.structured_data = EmergencyKeys
             /\ \A k \in EMERGENCY_FLOW_FIELD_NAMES :
                  r.structured_data[k] = Get(CustomOf(t), k, None)]_vars

\* C26: missing analysis data is not an error.  When the call data of a
\* call_analyzed event for a known Call lacks call_analysis, lacks
\* custom_analysis_data, or lacks transcript, the extraction does not raise
\* and the CallResult of the Call is still written (inserted when none was
\* found, the found row updated otherwise): its transcript is "" when the
\* transcript is missing, and its structured_data has every universal and
\* every normal-flow key, each key whose source mapping is missing being null.
\* (A part that is present as JSON null is not a missing part.)
MissingAnalysis(t) ==
    \/ call_data(t).call_analysis_kind = Absent
    \/ call_data(t).call_analysis_kind = "dict"
       /\ call_data(t).custom_analysis_data_kind = Absent
\* some part is missing and no part is a JSON null where a mapping is due
MissingData(t) ==
    /\ MissingAnalysis(t) \/ call_data(t).transcript = Absent
    /\ call_data(t).call_analysis_kind \in {Absent, "dict"}
    /\ call_data(t).custom_analysis_data_kind \in {Absent, "dict"}

C26_AbsenceIsNotAnError ==
    [][\A t \in Requests :
        (pc[t] = "selected" /\ pc'[t] # "selected" /\ MissingData(t))
        => /\ pc'[t] = "applied"
           /\ \E r \in results' :
                /\ r.call_id = TheCall(t).id
                /\ IF existing_result[t] = {}
                   THEN r.id = next_result_id /\ results' = results \cup {r}
                   ELSE r.id = TheResult(t).id
                        /\ results' = (results \ {TheResult(t)}) \cup {r}
                /\ r.transcript = IF call_data(t).transcript = Absent
                                  THEN "" ELSE call_data(t).transcript
                /\ MissingAnalysis(t) =>
                     /\ DOMAIN r.structured_data = NormalKeys
                     /\ \A k \in NormalKeys \ BuiltinFields : r.structured_data[k] = None
                     /\ \A k \in BuiltinFields :
                          r.structured_data[k] =
                             IF call_data(t).call_analysis_kind = Absent
                                \/ call_data(t).call_analysis[k] = Absent
                             THEN None ELSE call_data(t).call_analysis[k]]_vars

\* a CallResult stored from call data with neither transcript nor call_analysis
C26_Witness ==
    \E t \in Requests :
        /\ pc[t] = "applied"
        /\ call_data(t).call_analysis_kind = Absent
        /\ call_data(t).transcript = Absent
        /\ \E r \in results :
             /\ r.call_id = "call_1"
             /\ r.transcript = ""
             /\ DOMAIN r.structured_data = NormalKeys
             /\ \A k \in NormalKeys : r.structured_data[k] = None

\* C27: a status event (call_started or call_ended) and a call_analyzed event
\* for the same Call that are in progress at the same time do not undo each
\* other.  The commit of the status event, made while the call_analyzed
\* event is in progress or done, leaves the Call with the status it assigns
\* and changes no CallResult; the commit of call_analyzed, made while the
\* status event is in progress or done, writes its CallResult and leaves
\* every Call, the status included, as it is.  (Events of the same kind that
\* interfere are the subject of other properties: the status event finds
\* the Call as loaded, call_analyzed finds the CallResult as selected.)
StatusEvents == {"call_started", "call_ended"}
InProgressOrDone(u, id) ==
    \/ pc[u] \in {"found", "selected"} /\ TheCall(u).id = id
    \/ pc[u] = "applied"

C27_NeitherOverwrites ==
    [][\A t, u \in Requests :
        /\ (/\ pc[t] = "found" /\ pc'[t] = "applied" /\ event(t) \in StatusEvents
            /\ arrival[u] = "call_analyzed" /\ InProgressOrDone(u, TheCall(t).id)
            /\ CallAsLoaded(t))
           => /\ calls'[TheCall(t).id].status = assigned_status(t)
              /\ results' = results
              /\ existing_result'[u] = existing_result[u]
        /\ (/\ pc[u] = "selected" /\ pc'[u] = "applied"
            /\ arrival[t] \in StatusEvents /\ InProgressOrDone(t, TheCall(u).id)
            /\ existing_result[u] \subseteq results)
           => /\ calls' = calls
              /\ db_call'[t] = db_call[t]
              /\ \E r \in results' :
                   /\ r.call_id = TheCall(u).id
                   /\ existing_result[u] # {} => r.id = TheResult(u).id
                   /\ r.transcript = Get(call_data(u), "transcript", "")
                   /\ r.structured_data = extract_structured_data(call_data(u))]_vars

\* call_ended has set the status to completed while a call_analyzed event that
\* loaded the Call before that stands before its commit
C27_Witness ==
    \E t, u \in Requests :
        /\ pc[t] = "applied" /\ arrival[t] = "call_ended" /\ mutated[t]
        /\ pc[u] = "selected" /\ arrival[u] = "call_analyzed"
        /\ TheCall(u).id = "call_1" /\ TheCall(u).status = "in-progress"
        /\ calls["call_1"].status = "completed"

\* C28: for every custom prompt p, extract_user_prompt(build_full_prompt(p))
\* is p: the system prefix and its "---" separator are removed and the text
\* after the first separator comes back; and a prompt without "---" is
\* returned unchanged.
C28_PromptRoundTrip ==
    \A t \in Requests :
        /\ pc[t] = "extracted" => req[t].extracted = req[t].prompt
        /\ (pc[t] = "extracted_plain" /\ Occurrences(req[t].prompt) = {})
           => req[t].extracted = req[t].prompt

====
